---------------------------- MODULE Spec2Model ----------------------------
(***************************************************************************)
(* Pokédex dashboard (src/app.py): one Streamlit script that is re-run     *)
(* from the top on every user interaction.  A run checks that the CSV      *)
(* exists, loads it (schema check, numeric coercion, Tipos_list), draws    *)
(* the sidebar, filters the table and renders one of three views.          *)
(*                                                                         *)
(* Representation                                                          *)
(*   - a text is a sequence of one-character strings; the type names       *)
(*     "Fire" and "Water" are written with the single letters "F" and "W"; *)
(*   - a cell is <<>> when it is missing (NaN) and <<v>> otherwise;        *)
(*   - a number is an integer count of 1/Denom units, so that values that  *)
(*     are not whole numbers exist and int() truncates;                    *)
(*   - a mean is <<>> (NaN) or the exact fraction <<sum, count>>;          *)
(*   - a table is a sequence of rows; a subset of it (df_f, top10, resto)  *)
(*     is the sequence of its index labels, which are the row numbers of   *)
(*     the RangeIndex that read_csv gives.                                 *)
(***************************************************************************)
EXTENDS Integers, Sequences, FiniteSets, TLC

VARIABLES csv, cache, pc, session, df, paises, tipos_unicos, vista,
          sel_paises, sel_tipos, min_total, max_total, rango_total,
          df_f, out, error

vars == <<csv, cache, pc, session, df, paises, tipos_unicos, vista,
          sel_paises, sel_tipos, min_total, max_total, rango_total,
          df_f, out, error>>

(***************************************************************************)
(* Bounds of the model.                                                    *)
(***************************************************************************)
MaxRows == 3
MaxSel == 1
Denom == 2

(***************************************************************************)
(* Program constants.                                                      *)
(***************************************************************************)
TopN == 10
MaxDefaultPaises == 10

expected == <<"ID", "Nombre", "Tipo", "País", "Total", "HP", "Ataque",
              "Defensa", "Sp. Atk", "Sp. Def", "Velocidad">>

numeric_cols == <<"Total", "HP", "Ataque", "Defensa", "Sp. Atk", "Sp. Def",
                  "Velocidad">>

Vistas == {"Explorador de combate", "Geografía Pokémon", "Comparación"}

(***************************************************************************)
(* Generic helpers.                                                        *)
(***************************************************************************)
Range(s) == {s[i] : i \in 1..Len(s)}

Min(a, b) == IF a <= b THEN a ELSE b

NaN == <<>>

isna(c) == c = <<>>

Val(c) == c[1]

RECURSIVE SumOver(_, _)
SumOver(f, S) ==
    IF S = {} THEN 0
    ELSE LET i == CHOOSE j \in S : TRUE IN f[i] + SumOver(f, S \ {i})

RECURSIVE Concat(_)
Concat(ss) == IF ss = <<>> THEN <<>> ELSE Head(ss) \o Concat(Tail(ss))

\* The subsequence of the positions 1..n that satisfy the mask, in order.
RECURSIVE Where(_, _)
Where(mask, n) ==
    IF n = 0 THEN <<>>
    ELSE IF mask[n] THEN Append(Where(mask, n - 1), n) ELSE Where(mask, n - 1)

\* All the orders of the set S.
RECURSIVE Perms(_)
Perms(S) ==
    IF S = {} THEN {<<>>}
    ELSE UNION {{<<x>> \o p : p \in Perms(S \ {x})} : x \in S}

(***************************************************************************)
(* Texts: order of Python str comparison (by code point), str.split,       *)
(* str.strip and the substring test of str.contains.                       *)
(***************************************************************************)
CharRank(c) ==
    CASE c = " " -> 32
      [] c = "/" -> 47
      [] c = "F" -> 70
      [] c = "G" -> 71
      [] c = "W" -> 87
      [] c = "X" -> 88
      [] c = "Y" -> 89
      [] OTHER -> 90

RECURSIVE StrLess(_, _)
StrLess(a, b) ==
    IF b = <<>> THEN FALSE
    ELSE IF a = <<>> THEN TRUE
    ELSE IF Head(a) = Head(b) THEN StrLess(Tail(a), Tail(b))
    ELSE CharRank(Head(a)) < CharRank(Head(b))

\* sorted(S) for a set of texts
RECURSIVE sorted(_)
sorted(S) ==
    IF S = {} THEN <<>>
    ELSE LET m == CHOOSE x \in S : \A y \in S \ {x} : StrLess(x, y)
         IN <<m>> \o sorted(S \ {m})

\* s.split("/"): "" gives [""], a trailing or doubled slash gives "" fragments
RECURSIVE split(_)
split(s) ==
    IF s = <<>> THEN << <<>> >>
    ELSE LET r == split(Tail(s)) IN
         IF Head(s) = "/" THEN << <<>> >> \o r
         ELSE << <<Head(s)>> \o Head(r) >> \o Tail(r)

RECURSIVE lstrip(_)
lstrip(s) ==
    IF s # <<>> /\ Head(s) = " " THEN lstrip(Tail(s)) ELSE s

RECURSIVE rstrip(_)
rstrip(s) ==
    IF s # <<>> /\ s[Len(s)] = " " THEN rstrip(SubSeq(s, 1, Len(s) - 1)) ELSE s

strip(s) == rstrip(lstrip(s))

\* Series.str.contains(lit, na=False) for a one-letter literal
contains(cell, lit) == ~isna(cell) /\ lit \in Range(Val(cell))

(***************************************************************************)
(* Numbers.                                                                *)
(***************************************************************************)
\* int(x): truncation toward zero of v/Denom
int(v) == IF v >= 0 THEN v \div Denom ELSE -((-v) \div Denom)

\* pd.to_numeric(cell, errors="coerce"): text that is no number becomes NaN
to_numeric(raw) == IF raw.k = "num" THEN <<raw.v>> ELSE NaN

\* Series.mean() over the entries of ix (row labels, repeated when a row is
\* exploded twice): NaN cells are skipped; NaN when none is left
mean(d, ix, col) ==
    LET S == {k \in 1..Len(ix) : ~isna(d[ix[k]][col])}
    IN IF S = {} THEN NaN
       ELSE <<SumOver([k \in S |-> Val(d[ix[k]][col])], S), Cardinality(S)>>

\* a - b on means; NaN if either is NaN
minus(a, b) ==
    IF isna(a) \/ isna(b) THEN NaN
    ELSE <<a[1] * b[2] - b[1] * a[2], a[2] * b[2]>>

\* a > b on means that are not NaN
MeanGreater(a, b) == a[1] * b[2] > b[1] * a[2]

(***************************************************************************)
(* The CSV files the program is run on.  A raw numeric cell is a number,   *)
(* an empty cell or a text that is no number.  Of the 11 columns the rows  *)
(* carry the ones the script computes with; ID, Sp. Atk and Sp. Def are    *)
(* only displayed.  Nombre is unique per row and written as the row's ID.  *)
(***************************************************************************)
num(v) == [k |-> "num", v |-> v]

text == [k |-> "text", v |-> 0]

empty == [k |-> "empty", v |-> 0]

\* Totals 2, 1 + 1/Denom (not a whole number), 1, and one that is no number;
\* a Tipo of two labels, a missing one, one with a blank and a trailing slash.
RowPool ==
    { [Tipo |-> << <<"F", "/", "W">> >>, Pais |-> << <<"X">> >>,
       Total |-> num(2 * Denom), HP |-> num(Denom), Ataque |-> num(Denom),
       Defensa |-> num(2 * Denom), Velocidad |-> num(Denom + 1)],
      [Tipo |-> NaN, Pais |-> NaN,
       Total |-> num(Denom + 1), HP |-> empty, Ataque |-> num(Denom),
       Defensa |-> empty, Velocidad |-> empty],
      [Tipo |-> << <<" ", "W", "/">> >>, Pais |-> << <<"Y">> >>,
       Total |-> num(Denom), HP |-> num(2 * Denom), Ataque |-> text,
       Defensa |-> num(Denom), Velocidad |-> empty],
      [Tipo |-> << <<"F">> >>, Pais |-> << <<"Y">> >>,
       Total |-> text, HP |-> num(Denom + 1), Ataque |-> num(Denom + 1),
       Defensa |-> num(Denom), Velocidad |-> text] }

\* A table longer than the top-10 cut: TopN + 2 rows whose totals fall from row
\* to row, except that rows TopN and TopN + 1 hold the same total.
LongTable ==
    [i \in 1..(TopN + 2) |->
        [Tipo |-> << <<"F">> >>, Pais |-> << <<"X">> >>,
         Total |-> num(Denom + TopN + 3 - (IF i = TopN + 1 THEN TopN ELSE i)),
         HP |-> num(Denom), Ataque |-> num(Denom), Defensa |-> num(Denom),
         Velocidad |-> num(Denom)]]

RawTables(n) == UNION {[1..k -> RowPool] : k \in 0..n}

WithNombre(t) ==
    [i \in 1..Len(t) |->
        [Nombre |-> i, Tipo |-> t[i].Tipo, Pais |-> t[i].Pais, Total |-> t[i].Total,
         HP |-> t[i].HP, Ataque |-> t[i].Ataque, Defensa |-> t[i].Defensa,
         Velocidad |-> t[i].Velocidad]]

Without(cols, D) == SelectSeq(cols, LAMBDA c : c \notin D)

CsvFiles ==
    {[exists |-> FALSE, columns |-> <<>>, rows |-> <<>>]}
    \cup {[exists |-> TRUE, columns |-> Without(expected, D), rows |-> <<>>] :
             D \in {{"Tipo"}, {"Total", "Velocidad"}, Range(expected)}}
    \cup {[exists |-> TRUE, columns |-> expected, rows |-> WithNombre(t)] :
             t \in RawTables(MaxRows)}
    \cup {[exists |-> TRUE, columns |-> <<"Generación">> \o expected,
           rows |-> WithNombre(t)] : t \in RawTables(1)}
    \cup {[exists |-> TRUE, columns |-> expected, rows |-> WithNombre(LongTable)]}

(***************************************************************************)
(* State after the process starts: nothing cached, nothing drawn.          *)
(***************************************************************************)
NoError == [kind |-> "none", missing |-> <<>>, found |-> <<>>]

NoCache == [hit |-> FALSE, value |-> <<>>]

NoOut == [vista |-> "none"]

Unset == <<>>

ScriptGlobalsUnset ==
    /\ df = <<>>
    /\ paises = <<>>
    /\ tipos_unicos = <<>>
    /\ vista = "none"
    /\ sel_paises = {}
    /\ sel_tipos = {}
    /\ min_total = Unset
    /\ max_total = Unset
    /\ rango_total = Unset
    /\ df_f = <<>>
    /\ out = NoOut
    /\ error = NoError

Init ==
    /\ csv \in CsvFiles
    /\ cache = NoCache
    /\ pc = "inicio"
    /\ session = "first"
    /\ ScriptGlobalsUnset

(***************************************************************************)
(* Lines 33-36: the script stops when the file is not there.               *)
(***************************************************************************)
CheckFile ==
    /\ pc = "inicio"
    /\ IF ~csv.exists
       THEN /\ pc' = "detenido"
            /\ error' = [kind |-> "st.error", missing |-> <<>>, found |-> <<>>]
       ELSE /\ pc' = "existe"
            /\ error' = error
    /\ UNCHANGED <<csv, cache, session, df, paises, tipos_unicos, vista, sel_paises,
                   sel_tipos, min_total, max_total, rango_total, df_f, out>>

(***************************************************************************)
(* Lines 14-31 and 38: load_data under st.cache_data.                      *)
(***************************************************************************)
\* A schema check that looks for the first expected column only.
missing_columns_first(columns) ==
    SelectSeq(<<expected[1]>>, LAMBDA c : c \notin Range(columns))

\* line 20: the expected columns that the file does not have, in expected's order
missing_columns(columns) == SelectSeq(expected, LAMBDA c : c \notin Range(columns))

\* lines 25-27 and 30: the coerced row with its Tipos_list
coerce(r) ==
    [c \in DOMAIN r \cup {"Tipos_list"} |->
        IF c = "Tipos_list" THEN split(IF isna(r.Tipo) THEN <<>> ELSE Val(r.Tipo))
        ELSE IF c \in Range(numeric_cols) THEN to_numeric(r[c])
        ELSE r[c]]

load_data(file) == [i \in 1..Len(file.rows) |-> coerce(file.rows[i])]

\* line 38 on a later run: the value st.cache_data kept for this path
cached_table(c) == c.value

LoadData ==
    /\ pc = "existe"
    /\ IF cache.hit
       THEN /\ df' = cached_table(cache)
            /\ pc' = "cargado"
            /\ UNCHANGED <<cache, error>>
       ELSE IF missing_columns(csv.columns) # <<>>
       THEN /\ pc' = "fallo"
            /\ error' = [kind |-> "ValueError",
                         missing |-> missing_columns(csv.columns),
                         found |-> csv.columns]
            /\ UNCHANGED <<cache, df>>
       ELSE /\ df' = load_data(csv)
            /\ cache' = [hit |-> TRUE, value |-> load_data(csv)]
            /\ pc' = "cargado"
            /\ error' = error
    /\ UNCHANGED <<csv, session, paises, tipos_unicos, vista, sel_paises, sel_tipos,
                   min_total, max_total, rango_total, df_f, out>>

(***************************************************************************)
(* Lines 43-53: the sidebar.  The option lists come from the full table.   *)
(* A multiselect returns a list of its options; only membership in it is   *)
(* used, so a selection is kept as a set.  On the first run of a session   *)
(* the widgets return their defaults, afterwards what the user set.        *)
(***************************************************************************)
\* line 46
paises_of(d) == sorted({Val(d[i].Pais) : i \in {j \in 1..Len(d) : ~isna(d[j].Pais)}})

\* line 47: the fragments are not stripped and "" is kept
tipos_unicos_of(d) ==
    sorted(UNION {Range(split(Val(d[i].Tipo))) :
                     i \in {j \in 1..Len(d) : ~isna(d[j].Tipo)}})

\* line 47: read_csv gives a column with no value at all the dtype float64, and
\* .str on it raises AttributeError; a table with no row has dtype object
tipo_is_float64(d) == Len(d) > 0 /\ \A i \in 1..Len(d) : isna(d[i].Tipo)

\* line 49
default_paises(ps) ==
    IF Len(ps) > MaxDefaultPaises THEN Range(SubSeq(ps, 1, MaxDefaultPaises))
    ELSE Range(ps)

Totals(d) == {Val(d[i].Total) : i \in {j \in 1..Len(d) : ~isna(d[j].Total)}}

\* Series.min() and Series.max() skip NaN
series_min(S) == CHOOSE m \in S : \A x \in S : m <= x

series_max(S) == CHOOSE m \in S : \A x \in S : m >= x

Selections(opts) ==
    {S \in SUBSET Range(opts) : Cardinality(S) <= MaxSel \/ S = Range(opts)}

SliderValues(lo, hi) == {r \in (lo..hi) \X (lo..hi) : r[1] <= r[2]}

Sidebar ==
    /\ pc = "cargado"
    /\ paises' = paises_of(df)
    /\ IF tipo_is_float64(df)
       THEN /\ pc' = "fallo"
            /\ error' = [kind |-> "AttributeError", missing |-> <<>>, found |-> <<>>]
            /\ vista' \in IF session = "first" THEN {"Explorador de combate"} ELSE Vistas
            /\ UNCHANGED <<tipos_unicos, sel_paises, sel_tipos, min_total, max_total,
                           rango_total>>
       ELSE /\ tipos_unicos' = tipos_unicos_of(df)
            /\ IF session = "first"
               THEN /\ vista' = "Explorador de combate"
                    /\ sel_paises' = default_paises(paises')
                    /\ sel_tipos' = Range(tipos_unicos')
               ELSE /\ vista' \in Vistas
                    /\ sel_paises' \in Selections(paises')
                    /\ sel_tipos' \in Selections(tipos_unicos')
            /\ IF Totals(df) = {}
               THEN \* line 52: int(nan)
                    /\ pc' = "fallo"
                    /\ error' = [kind |-> "ValueError", missing |-> <<>>, found |-> <<>>]
                    /\ UNCHANGED <<min_total, max_total, rango_total>>
               ELSE /\ min_total' = <<int(series_min(Totals(df)))>>
                    /\ max_total' = <<int(series_max(Totals(df)))>>
                    /\ IF session = "first"
                       THEN rango_total' = <<Val(min_total'), Val(max_total')>>
                       ELSE rango_total' \in SliderValues(Val(min_total'), Val(max_total'))
                    /\ pc' = "controles"
                    /\ error' = error
    /\ UNCHANGED <<csv, cache, session, df, df_f, out>>

(***************************************************************************)
(* Lines 58-65: the filter.                                                *)
(***************************************************************************)
\* line 58: isin() is False for a missing País
mask_pais(d, sel) ==
    [i \in 1..Len(d) |->
        IF sel # {} THEN ~isna(d[i].Pais) /\ Val(d[i].Pais) \in sel ELSE TRUE]

\* A range test that leaves the upper end out.
between_exclusive(c, lo, hi) == ~isna(c) /\ lo * Denom <= Val(c) /\ Val(c) < hi * Denom

\* line 59: between() includes both ends and is False for NaN
between(c, lo, hi) == ~isna(c) /\ lo * Denom <= Val(c) /\ Val(c) <= hi * Denom

mask_total(d, r) == [i \in 1..Len(d) |-> between(d[i].Total, r[1], r[2])]

\* lines 61-62
tiene_tipo(row_tipos, seleccion) ==
    IF seleccion # {} THEN \E t \in Range(row_tipos) : t \in seleccion ELSE TRUE

\* line 64
mask_tipo(d, sel) == [i \in 1..Len(d) |-> tiene_tipo(d[i].Tipos_list, sel)]

\* line 65: the index labels of the rows kept, in the table's order
filtrar(d, selp, selt, r) ==
    LET mp == mask_pais(d, selp)
        mt == mask_tipo(d, selt)
        mr == mask_total(d, r)
    IN Where([i \in 1..Len(d) |-> mp[i] /\ mt[i] /\ mr[i]], Len(d))

\* A filter applied in place (df = df[mask]).
df_after_filtrado_inplace(d, kept) == [k \in 1..Len(kept) |-> d[kept[k]]]

\* line 65: df[mask].copy() builds a new frame and leaves df as it is
df_after_filtrado(d, kept) == d

Filtrado ==
    /\ pc = "controles"
    /\ df_f' = filtrar(df, sel_paises, sel_tipos, rango_total)
    /\ df' = df_after_filtrado(df, df_f')
    /\ pc' = "filtrado"
    /\ UNCHANGED <<csv, cache, session, paises, tipos_unicos, vista, sel_paises,
                   sel_tipos, min_total, max_total, rango_total, out, error>>

(***************************************************************************)
(* pandas operations the views use.                                        *)
(***************************************************************************)
\* Series.idxmax() over the rows ix: the label of the first row that holds the
\* largest value, NaN cells skipped; NaN when every cell is NaN
idxmax(d, ix, col) ==
    LET S == {k \in 1..Len(ix) : ~isna(d[ix[k]][col])}
    IN IF S = {} THEN NaN
       ELSE LET m == series_max({Val(d[ix[k]][col]) : k \in S})
                first == CHOOSE k \in S :
                            /\ Val(d[ix[k]][col]) = m
                            /\ \A j \in S : Val(d[ix[j]][col]) = m => k <= j
            IN <<ix[first]>>

\* sort_values(..., ascending=False) with the default kind="quicksort", which is
\* not stable: every order of the items with the keys not increasing (the items
\* of the largest key in any order, then the rest)
RECURSIVE sort_values(_, _)
sort_values(S, key) ==
    IF S = {} THEN {<<>>}
    ELSE LET top == {x \in S : \A y \in S : key[x] >= key[y]}
         IN {p \o q : p \in Perms(top), q \in sort_values(S \ top, key)}

\* nlargest(n, col) with keep="first": descending and stable, then the first n
RECURSIVE stable_desc(_, _)
stable_desc(d, ix) ==
    IF ix = <<>> THEN <<>>
    ELSE LET k == CHOOSE k \in 1..Len(ix) :
                     /\ \A j \in 1..Len(ix) : Val(d[ix[k]].Total) >= Val(d[ix[j]].Total)
                     /\ \A j \in 1..(k - 1) : Val(d[ix[j]].Total) < Val(d[ix[k]].Total)
         IN <<ix[k]>> \o stable_desc(d, SubSeq(ix, 1, k - 1) \o SubSeq(ix, k + 1, Len(ix)))

head(s, n) == SubSeq(s, 1, Min(n, Len(s)))

nlargest(d, ix, n) == head(stable_desc(d, ix), n)

\* Series.str.split("/").explode() over the rows ix: one entry per fragment,
\* one NaN entry for a row whose Tipo is missing; each entry keeps its row
explode(d, ix) ==
    Concat([k \in 1..Len(ix) |->
               IF isna(d[ix[k]].Tipo) THEN <<[row |-> ix[k], tipo |-> NaN]>>
               ELSE LET fs == split(Val(d[ix[k]].Tipo))
                    IN [j \in 1..Len(fs) |-> [row |-> ix[k], tipo |-> <<fs[j]>>]]])

\* f'{x:.1f}' and round(1): tenths of the mean, halves to the even tenth
round1(m) ==
    IF isna(m) THEN NaN
    ELSE LET a == IF m[1] >= 0 THEN m[1] ELSE -m[1]
             den == m[2] * Denom
             q == (10 * a) \div den
             r == (10 * a) % den
             t == IF 2 * r > den \/ (2 * r = den /\ q % 2 = 1) THEN q + 1 ELSE q
         IN <<IF m[1] >= 0 THEN t ELSE -t>>

info == [kind |-> "info", data |-> <<>>]

\* A view that skips its df_f.empty test.
df_empty_never(ix) == FALSE

\* df_f.empty, the test every view makes before it aggregates
df_empty(ix) == ix = <<>>

chart(data) == [kind |-> "chart", data |-> data]

(***************************************************************************)
(* Lines 76-114: view "Explorador de combate".                             *)
(***************************************************************************)
metric_cols == <<"Total", "Velocidad", "Ataque", "Defensa">>

\* lines 83-91: the four metrics; df_f.loc[idx] of a NaN idx raises KeyError
metric_fails(d, ix) == \E c \in Range(metric_cols) : isna(idxmax(d, ix, c))

metrics(d, ix) ==
    [c \in 1..Len(metric_cols) |->
        LET idx == Val(idxmax(d, ix, metric_cols[c]))
        IN [kind |-> "metric",
            label |-> metric_cols[c],
            value |-> <<int(Val(d[idx][metric_cols[c]]))>>,
            help |-> <<d[idx].Nombre>>]]

sin_datos == [c \in 1..Len(metric_cols) |->
                [kind |-> "write", label |-> metric_cols[c], value |-> NaN, help |-> NaN]]

VistaExplorador ==
    /\ pc = "filtrado"
    /\ vista = "Explorador de combate"
    /\ IF ~df_empty(df_f) /\ metric_fails(df, df_f)
       THEN /\ pc' = "fallo"
            /\ error' = [kind |-> "KeyError", missing |-> <<>>, found |-> <<>>]
            /\ out' = out
       ELSE /\ pc' = "vista"
            /\ error' = error
            /\ out' = [vista |-> vista,
                       metricas |-> IF df_empty(df_f) THEN sin_datos ELSE metrics(df, df_f),
                       scatter |-> IF df_empty(df_f) THEN info ELSE chart(df_f),
                       hist |-> IF df_empty(df_f) THEN info ELSE chart(df_f),
                       tabla |-> df_f]
    /\ UNCHANGED <<csv, cache, session, df, paises, tipos_unicos, vista, sel_paises,
                   sel_tipos, min_total, max_total, rango_total, df_f>>

(***************************************************************************)
(* Lines 116-160: view "Geografía Pokémon".                                *)
(***************************************************************************)
rows_of_pais(d, ix, g) == SelectSeq(ix, LAMBDA i : d[i].Pais = <<g>>)

\* lines 122-126: groupby drops the rows with a missing País; the order among
\* equal means is whatever the sort leaves
promedio_pais_of(d, ix) ==
    LET G == {Val(d[i].Pais) : i \in {j \in Range(ix) : ~isna(d[j].Pais)}}
        m(g) == mean(d, rows_of_pais(d, ix, g), "Total")
        rank == [g \in G |-> Cardinality({h \in G : MeanGreater(m(g), m(h))})]
    IN {[k \in 1..Len(p) |-> [Pais |-> p[k], Total |-> m(p[k])]] :
           p \in sort_values(G, rank)}

\* line 140
top10_of(d, ix) ==
    {head(p, TopN) : p \in sort_values(Range(ix), [i \in Range(ix) |-> Val(d[i].Total)])}

\* lines 149-151: dropna() removes the entries of rows without Tipo, nothing else
tipos_series(d, ix) ==
    LET e == SelectSeq(explode(d, ix), LAMBDA x : ~isna(x.tipo))
    IN [k \in 1..Len(e) |-> strip(Val(e[k].tipo))]

\* lines 152-155
conteo_tipos_of(d, ix) ==
    LET ts == tipos_series(d, ix)
        n == [t \in Range(ts) |-> Cardinality({k \in 1..Len(ts) : ts[k] = t})]
    IN {[k \in 1..Len(p) |-> [Tipo |-> p[k], Conteo |-> n[p[k]]]] :
           p \in sort_values(Range(ts), n)}

nothing == [kind |-> "none", data |-> <<>>]

VistaGeografia ==
    /\ pc = "filtrado"
    /\ vista = "Geografía Pokémon"
    /\ \E pp \in IF df_empty(df_f) THEN {<<>>} ELSE promedio_pais_of(df, df_f),
          t10 \in IF df_empty(df_f) THEN {<<>>} ELSE top10_of(df, df_f),
          ct \in IF df_empty(df_f) THEN {<<>>} ELSE conteo_tipos_of(df, df_f) :
          out' = [vista |-> vista,
                  aviso |-> IF df_empty(df_f) THEN info ELSE nothing,
                  promedio_pais |-> pp,
                  mapa |-> IF pp # <<>> THEN chart(pp) ELSE nothing,
                  top10 |-> IF df_empty(df_f) THEN info ELSE chart(t10),
                  tipos |-> IF df_empty(df_f) \/ ct = <<>> THEN info ELSE chart(ct)]
    /\ pc' = "vista"
    /\ UNCHANGED <<csv, cache, session, df, paises, tipos_unicos, vista, sel_paises,
                   sel_tipos, min_total, max_total, rango_total, df_f, error>>

(***************************************************************************)
(* Lines 162-209: view "Comparación".                                      *)
(***************************************************************************)
melt_cols == <<"Ataque", "Defensa", "Velocidad">>

\* lines 168-170: one group per fragment (not stripped), in sorted order; the
\* entries of rows without Tipo belong to no group
melt_of(d, ix) ==
    LET e == SelectSeq(explode(d, ix), LAMBDA x : ~isna(x.tipo))
        labels == sorted({Val(e[k].tipo) : k \in 1..Len(e)})
        rows(t) == LET es == SelectSeq(e, LAMBDA x : x.tipo = <<t>>)
                   IN [k \in 1..Len(es) |-> es[k].row]
    IN Concat([c \in 1..Len(melt_cols) |->
                  [k \in 1..Len(labels) |->
                      [TipoUnidad |-> labels[k], Metrica |-> melt_cols[c],
                       Promedio |-> mean(d, rows(labels[k]), melt_cols[c])]]])

\* lines 178-179
box_of(d, ix) ==
    LET e == SelectSeq(explode(d, ix), LAMBDA x : ~isna(x.tipo))
    IN [k \in 1..Len(e) |-> [TipoUnidad |-> Val(e[k].tipo), HP |-> d[e[k].row].HP]]

\* line 187
resto_of(ix, top) == SelectSeq(ix, LAMBDA i : i \notin Range(top))

\* lines 191-192: the mean of a group with no row
empty_mean == NaN

\* lines 186-197: the table handed to the bar chart
cmp_of(d, ix) ==
    LET top10 == nlargest(d, ix, TopN)
        resto == resto_of(ix, top10)
        global == mean(d, ix, "Total")
        row(g, m) == [Grupo |-> g, Promedio_Total |-> m,
                      Gap_vs_Global |-> minus(m, global),
                      texto |-> round1(minus(m, global))]
    IN << row("Top10", IF top10 # <<>> THEN mean(d, top10, "Total") ELSE empty_mean),
          row("Resto", IF resto # <<>> THEN mean(d, resto, "Total") ELSE empty_mean),
          row("Global", global) >>

\* lines 204-209
fire_water_of(d, ix) ==
    LET sub(lit) == SelectSeq(ix, LAMBDA i : contains(d[i].Tipo, lit))
        m(label, rows) ==
            IF rows # <<>>
            THEN [kind |-> "metric", label |-> label,
                  value |-> round1(mean(d, rows, "Total"))]
            ELSE [kind |-> "N/D", label |-> label, value |-> NaN]
    IN << [kind |-> "metric", label |-> "Promedio Global",
           value |-> round1(mean(d, ix, "Total"))],
          m("Promedio Fire", sub("F")),
          m("Promedio Water", sub("W")) >>

VistaComparacion ==
    /\ pc = "filtrado"
    /\ vista = "Comparación"
    /\ out' = [vista |-> vista,
               grupos |-> IF df_empty(df_f) THEN info ELSE chart(melt_of(df, df_f)),
               box |-> IF df_empty(df_f) THEN info ELSE chart(box_of(df, df_f)),
               cmp |-> IF df_empty(df_f) THEN info ELSE chart(cmp_of(df, df_f)),
               fire_water |-> IF df_empty(df_f) THEN info
                              ELSE chart(fire_water_of(df, df_f))]
    /\ pc' = "vista"
    /\ UNCHANGED <<csv, cache, session, df, paises, tipos_unicos, vista, sel_paises,
                   sel_tipos, min_total, max_total, rango_total, df_f, error>>

(***************************************************************************)
(* A user interaction (or a reload) starts the script again from the top:  *)
(* the script's globals are recomputed, the st.cache_data cache stays.     *)
(***************************************************************************)
Rerun ==
    /\ pc \in {"vista", "fallo", "detenido"}
    /\ pc' = "inicio"
    /\ session' = "rerun"
    /\ df' = <<>>
    /\ paises' = <<>>
    /\ tipos_unicos' = <<>>
    /\ vista' = "none"
    /\ sel_paises' = {}
    /\ sel_tipos' = {}
    /\ min_total' = Unset
    /\ max_total' = Unset
    /\ rango_total' = Unset
    /\ df_f' = <<>>
    /\ out' = NoOut
    /\ error' = NoError
    /\ UNCHANGED <<csv, cache>>

Next ==
    \/ CheckFile
    \/ LoadData
    \/ Sidebar
    \/ Filtrado
    \/ VistaExplorador
    \/ VistaGeografia
    \/ VistaComparacion
    \/ Rerun

Spec == Init /\ [][Next]_vars

(***************************************************************************)
(* Properties.                                                             *)
(***************************************************************************)
\* df_f holds the filter result of the current run
Filtered == pc \in {"filtrado", "vista"} \/ (pc = "fallo" /\ error.kind = "KeyError")

\* the current run has reached its view
InView == pc = "vista" \/ (pc = "fallo" /\ error.kind = "KeyError")

\* the three conditions of the filter contract for row i
Passes(i) ==
    /\ sel_paises = {} \/ (\E g \in sel_paises : df[i].Pais = <<g>>)
    /\ sel_tipos = {} \/ (\E k \in 1..Len(df[i].Tipos_list) :
                              df[i].Tipos_list[k] \in sel_tipos)
    /\ ~isna(df[i].Total)
    /\ rango_total[1] * Denom <= Val(df[i].Total)
    /\ Val(df[i].Total) <= rango_total[2] * Denom

\* C1: the filtered subset is exactly the rows of the table that satisfy the
\* region, category and inclusive total-range conditions, each once and in the
\* table's order.
C1_FilterIsExactSubsequence ==
    Filtered =>
        /\ \A k \in 1..Len(df_f) : df_f[k] \in 1..Len(df)
        /\ \A k \in 1..(Len(df_f) - 1) : df_f[k] < df_f[k + 1]
        /\ Range(df_f) = {i \in 1..Len(df) : Passes(i)}

\* C1 witness: both selections are set, the filter keeps a row whose total is
\* the upper end of the range and drops another row.
C1_Witness ==
    /\ pc = "filtrado"
    /\ sel_paises # {}
    /\ sel_tipos # {}
    /\ Len(df_f) > 0
    /\ Len(df_f) < Len(df)
    /\ \E k \in 1..Len(df_f) : df[df_f[k]].Total = <<rango_total[2] * Denom>>

\* C2: an empty region selection filters like the selection of every region
\* option, and an empty category selection like the selection of every
\* category option.
C2_EmptySelectionIsAllowAll ==
    pc = "filtrado" =>
        /\ sel_paises = {} =>
              df_f = filtrar(df, Range(paises), sel_tipos, rango_total)
        /\ sel_tipos = {} =>
              df_f = filtrar(df, sel_paises, Range(tipos_unicos), rango_total)

\* C3: with every region option, every category option and the whole slider
\* range selected, the filtered subset is the whole table, row for row.
C3_RoundTrip ==
    (/\ pc = "filtrado"
     /\ sel_paises = Range(paises)
     /\ sel_tipos = Range(tipos_unicos)
     /\ rango_total = <<Val(min_total), Val(max_total)>>)
        => df_f = [i \in 1..Len(df) |-> i]

BadFile == ~csv.exists

BadSchema == csv.exists /\ \E c \in Range(expected) : c \notin Range(csv.columns)

\* C4: when the file is missing or a required column is absent, the run gets no
\* further than the blocking error: no table is loaded or cached, no sidebar
\* control, filter or view exists, and the schema error names the missing
\* columns and the columns found.
C4_BadCsvBlocks ==
    (BadFile \/ BadSchema) =>
        /\ BadFile => pc \in {"inicio", "detenido"}
        /\ BadSchema => pc \in {"inicio", "existe", "fallo"}
        /\ pc = "detenido" => error.kind = "st.error"
        /\ pc = "fallo" =>
              /\ error.kind = "ValueError"
              /\ error.missing # <<>>
              /\ Range(error.missing) = Range(expected) \ Range(csv.columns)
              /\ error.found = csv.columns
        /\ ~cache.hit
        /\ df = <<>> /\ paises = <<>> /\ tipos_unicos = <<>>
        /\ vista = "none" /\ sel_paises = {} /\ sel_tipos = {}
        /\ rango_total = Unset /\ df_f = <<>> /\ out = NoOut

\* C4 witness: a file without two of the required columns has ended in the
\* schema error, on a run after the first.
C4_Witness ==
    /\ pc = "fallo"
    /\ session = "rerun"
    /\ Len(error.missing) = 2
    /\ Len(error.found) = Len(expected) - 2

\* the values of column col that the rows of df_f hold
Present(col) == {Val(df[i][col]) : i \in {j \in Range(df_f) : ~isna(df[j][col])}}

\* C5: on a non-empty filtered subset the explorer view does not fail, and each
\* of its four metrics shows the largest value present in its column together
\* with the name of the first row of the subset that holds it.
C5_ExtremumWithLabel ==
    (InView /\ vista = "Explorador de combate" /\ df_f # <<>>) =>
        /\ pc = "vista"
        /\ \A c \in 1..Len(metric_cols) :
              LET col == metric_cols[c]
                  m == out.metricas[c]
              IN Present(col) # {} =>
                    /\ m.kind = "metric"
                    /\ Val(m.value) * Denom = series_max(Present(col))
                    /\ \E k \in 1..Len(df_f) :
                          /\ m.help = <<df[df_f[k]].Nombre>>
                          /\ df[df_f[k]][col] = <<series_max(Present(col))>>
                          /\ \A j \in 1..(k - 1) :
                                df[df_f[j]][col] # <<series_max(Present(col))>>

\* C6: on a filtered subset of at most 10 rows the comparison table's rest
\* group is empty and neither its mean nor its gap to the global mean reaches
\* the chart as NaN.
C6_RestMeanIsSentinel ==
    (/\ pc = "vista"
     /\ vista = "Comparación"
     /\ df_f # <<>>
     /\ Len(df_f) <= TopN) =>
        /\ resto_of(df_f, nlargest(df, df_f, TopN)) = <<>>
        /\ out.cmp.data[2].Grupo = "Resto"
        /\ ~isna(out.cmp.data[2].Promedio_Total)
        /\ ~isna(out.cmp.data[2].Gap_vs_Global)

\* every slash-separated fragment of the Tipo of row i, stripped, one entry per
\* occurrence, empty fragments left out
Labels(i) ==
    IF isna(df[i].Tipo) THEN <<>>
    ELSE SelectSeq([k \in 1..Len(split(Val(df[i].Tipo))) |->
                       strip(split(Val(df[i].Tipo))[k])],
                   LAMBDA t : t # <<>>)

Occurrences(t) ==
    SumOver([i \in Range(df_f) |->
                Cardinality({k \in 1..Len(Labels(i)) : Labels(i)[k] = t})],
            Range(df_f))

\* C7: the type-count table has one row per distinct stripped non-empty label
\* of the filtered subset, with the number of its occurrences, ordered by count
\* descending; missing Tipo cells and empty fragments give no row.
C7_ExplodeCount ==
    (pc = "vista" /\ vista = "Geografía Pokémon" /\ df_f # <<>>) =>
        LET t == out.tipos.data
        IN /\ {t[k].Tipo : k \in 1..Len(t)} = UNION {Range(Labels(i)) : i \in Range(df_f)}
           /\ \A j, k \in 1..Len(t) : t[j].Tipo = t[k].Tipo => j = k
           /\ \A k \in 1..Len(t) : t[k].Conteo = Occurrences(t[k].Tipo)
           /\ \A k \in 1..(Len(t) - 1) : t[k].Conteo >= t[k + 1].Conteo

\* C8: the top-10 ranking of the geography view lists the min(10, n) rows of
\* largest total in descending total, rows of equal total in the order of the
\* filtered subset, the earlier rows kept when a tie straddles the cut.
C8_TopNStableTies ==
    (pc = "vista" /\ vista = "Geografía Pokémon" /\ df_f # <<>>) =>
        LET t == out.top10.data
            total(i) == Val(df[i].Total)
        IN /\ Len(t) = Min(TopN, Len(df_f))
           /\ Range(t) \subseteq Range(df_f)
           /\ \A j, k \in 1..Len(t) : t[j] = t[k] => j = k
           /\ \A k \in 1..(Len(t) - 1) :
                 \/ total(t[k]) > total(t[k + 1])
                 \/ (total(t[k]) = total(t[k + 1]) /\ t[k] < t[k + 1])
           /\ \A i \in Range(df_f) \ Range(t) : \A k \in 1..Len(t) :
                 \/ total(t[k]) > total(i)
                 \/ (total(t[k]) = total(i) /\ t[k] < i)

\* C9: when the filter leaves no row, the view is rendered without an error;
\* every aggregate of it is the no-data message, and the region averages are
\* an empty table.
C9_EmptySubsetNoData ==
    (InView /\ df_f = <<>>) =>
        /\ pc = "vista"
        /\ error = NoError
        /\ vista = "Explorador de combate" =>
              /\ \A c \in 1..Len(metric_cols) :
                    /\ out.metricas[c].kind = "write"
                    /\ isna(out.metricas[c].value)
              /\ out.scatter = info
              /\ out.hist = info
              /\ out.tabla = <<>>
        /\ vista = "Geografía Pokémon" =>
              /\ out.aviso = info
              /\ out.promedio_pais = <<>>
              /\ out.mapa = nothing
              /\ out.top10 = info
              /\ out.tipos = info
        /\ vista = "Comparación" =>
              /\ out.grupos = info
              /\ out.box = info
              /\ out.cmp = info
              /\ out.fire_water = info

\* C9 witness: a loaded table with rows, a filter that keeps none of them, and
\* the geography view rendered.
C9_Witness ==
    /\ pc = "vista"
    /\ vista = "Geografía Pokémon"
    /\ Len(df) > 1
    /\ df_f = <<>>
    /\ sel_tipos # {}

\* C10: in every run the full table is the table that was loaded from the file
\* and cached, the option lists are the ones of that table, and the filtered
\* subset is the filter of that table under the current inputs.
C10_FullTableAndOptionsFixed ==
    LET loaded == load_data(csv)
    IN /\ cache.hit => cache.value = loaded
       /\ pc \in {"cargado", "controles", "filtrado", "vista"} => df = loaded
       /\ (pc = "fallo" /\ error.kind \in {"KeyError", "AttributeError"}) =>
             df = loaded
       /\ pc \in {"controles", "filtrado", "vista"} =>
             /\ paises = paises_of(loaded)
             /\ tipos_unicos = tipos_unicos_of(loaded)
       /\ Filtered =>
             df_f = filtrar(loaded, sel_paises, sel_tipos, rango_total)

\* C10 witness: on a run after the first, served from the cache, a view is
\* rendered on a filtered subset that is a proper, non-empty part of the table.
C10_Witness ==
    /\ pc = "vista"
    /\ session = "rerun"
    /\ cache.hit
    /\ df_f # <<>>
    /\ Len(df_f) < Len(df)
    /\ Len(paises) > 1

=============================================================================
